---- MODULE Spec2Model ----
(***************************************************************************)
(* Model of SRC/FileTest.py: a time-range query helper that caches the     *)
(* result of a source query as a spreadsheet file in a cache directory,    *)
(* together with the two cache administration functions.                   *)
(*                                                                         *)
(* Strings are sequences of one-character strings, so that the filename    *)
(* sanitisation and the glob matching are computed character by character. *)
(***************************************************************************)
EXTENDS Integers, Sequences, FiniteSets, TLC

VARIABLES dirState, files, last, san, cfile, proc, hist

vars == <<dirState, files, last, san, cfile, proc, hist>>

(***************************************************************************)
(* Bounds of the model.                                                    *)
(***************************************************************************)
\* longest start / end string given to the filename builder
MaxLen == 2
\* most rows of a table returned by the source query
MaxRows == 1
\* number of separate writes it takes to store one spreadsheet file
NChunks == 2

(***************************************************************************)
(* Characters and strings.                                                 *)
(***************************************************************************)
AlnumChars == {"a", "1"}

Alphabet == AlnumChars \cup {" ", "-", "_", ".", "/", ":", "?"}

\* FileTest.py:36  c.isalnum()
IsAlnum(c) == c \in AlnumChars

\* FileTest.py:36-37  the condition of the generator expression
IsSafeCharColon(c) == IsAlnum(c) \/ c \in {" ", "-", "_", ".", ":"}

IsSafeChar(c) == IsAlnum(c) \/ c \in {" ", "-", "_", "."}

\* FileTest.py:36-37  "".join(c for c in s if ...)
Sanitize(s) == SelectSeq(s, IsSafeChar)

XlsxSuffix == <<".", "x", "l", "s", "x">>

\* FileTest.py:38  f"{safe_start_time}_{safe_end_time}.xlsx"
Filename(start, end) == Sanitize(start) \o <<"_">> \o Sanitize(end) \o XlsxSuffix

\* all strings over a set of characters of length at most n
RECURSIVE StringsUpTo(_, _)
StringsUpTo(chars, n) ==
    IF n = 0 THEN {<< >>}
    ELSE LET shorter == StringsUpTo(chars, n - 1)
         IN  shorter \cup {Append(s, c) : s \in shorter, c \in chars}

(***************************************************************************)
(* pathlib's Path.glob on one directory level: "*" matches any run of      *)
(* characters, "?" any single character, anything else itself.             *)
(***************************************************************************)
RECURSIVE GlobMatch(_, _)
GlobMatch(pat, s) ==
    IF pat = << >> THEN s = << >>
    ELSE IF Head(pat) = "*"
         THEN GlobMatch(Tail(pat), s) \/ (s # << >> /\ GlobMatch(pat, Tail(s)))
    ELSE IF s = << >> THEN FALSE
    ELSE IF Head(pat) = "?" THEN GlobMatch(Tail(pat), Tail(s))
    ELSE Head(pat) = Head(s) /\ GlobMatch(Tail(pat), Tail(s))

\* FileTest.py:135 and 159  glob("*.xlsx")
XlsxGlob == <<"*">> \o XlsxSuffix

\* FileTest.py:133  glob(f"*{pattern}*")
PatternGlob(text) == <<"*">> \o text \o <<"*">>

(***************************************************************************)
(* Tables, file contents, the time ranges and the directory entries.       *)
(***************************************************************************)
SrcCells == {"A", ""}

RECURSIVE CellSeqs(_)
CellSeqs(n) ==
    IF n = 0 THEN {<< >>}
    ELSE LET shorter == CellSeqs(n - 1)
         IN  shorter \cup {Append(s, c) : s \in shorter, c \in SrcCells}

\* a DataFrame, by the cells of its rows
Table(cells) == [kind |-> "table", cells |-> cells]

\* the Python value None
None == [kind |-> "none", cells |-> << >>]

\* what raising an exception hands to the caller
Raised == [kind |-> "raised", cells |-> << >>]

\* the DataFrames the source query may return
SourceTables == {Table(c) : c \in CellSeqs(MaxRows)}

\* FileTest.py:55  outcomes of query_data_from_source: raise, None or a frame
SourceOutcomes == {Raised, None} \cup SourceTables

\* no file under that name
Absent == [kind |-> "absent", cells |-> << >>, by |-> {}]

\* a file that is not a readable workbook
Corrupt == [kind |-> "corrupt", cells |-> << >>, by |-> {}]

TimeRange(start, end) == [start |-> start, end |-> end]

\* the time ranges the callers ask for
Ranges == { TimeRange(<<"a", "1">>, <<"a">>),
            TimeRange(<<"a", "/", "1">>, <<"a">>),
            TimeRange(<<"1">>, <<"1">>) }

file_path(r) == Filename(r.start, r.end)

ArtifactNames == {file_path(r) : r \in Ranges}

\* a file in the cache directory that is not a cached artifact
NotesName == <<"a", "1", ".", "t", "x", "t">>

Names == ArtifactNames \cup {NotesName}

\* the pattern argument of clear_cache: None or a string
NoPattern == [given |-> FALSE, text |-> << >>]

Pattern(text) == [given |-> TRUE, text |-> text]

Patterns == {NoPattern, Pattern(<< >>), Pattern(<<"a", "1">>),
             Pattern(<<"1", "_">>), Pattern(<<"?">>)}

(***************************************************************************)
(* The spreadsheet conversions.                                            *)
(***************************************************************************)
\* FileTest.py:60  df.to_excel(file_path, index=False): the cells are stored
to_excel(df, r) == [kind |-> "xlsx", cells |-> df.cells, by |-> {r}]

\* an empty cell is read back as a missing value
ReadCell(c) == IF c = "" THEN "NaN" ELSE c

\* FileTest.py:45  pd.read_excel(file_path)
read_excel(content) ==
    Table([i \in 1..Len(content.cells) |-> ReadCell(content.cells[i])])

\* FileTest.py:45,48  read_excel raises unless the file is a workbook
ReadSucceeds(content) == content.kind = "xlsx"

(***************************************************************************)
(* query_data_with_cache, step by step.                                    *)
(***************************************************************************)
\* FileTest.py:33  mkdir(exist_ok=True) without parents=True raises when the
\* parent is missing or when the path is a regular file
MkdirRaises(d) == d \in {"noparent", "file"}

\* FileTest.py:42  file_path.exists() and not force_refresh
UseCacheAlways(exists, force) == exists

UseCacheNever(exists, force) == FALSE

UseCache(exists, force) == exists /\ ~force

\* FileTest.py:57  df is not None and not df.empty
HasDataAnyFrame(df) == df.kind = "table"

HasData(df) == df.kind = "table" /\ df.cells # << >>

WriteOutcomes == {"ok", "untouched", "partial"}

\* FileTest.py:59-63  the file after df.to_excel: written, or, when the write
\* raises, either left as it was or left as an unreadable partial file
ArtifactAfterWriteKeepCorrupt(old, df, r, wout) ==
    IF wout = "ok" /\ old.kind # "corrupt" THEN to_excel(df, r)
    ELSE IF wout = "partial" THEN Corrupt
    ELSE old

ArtifactAfterWrite(old, df, r, wout) ==
    IF wout = "ok" THEN to_excel(df, r)
    ELSE IF wout = "partial" THEN Corrupt
    ELSE old

\* FileTest.py:60  only the file at file_path is written
FilesAfterWriteOnly(fs, name, content) ==
    [n \in Names |-> IF n = name THEN content ELSE Absent]

FilesAfterWrite(fs, name, content) == [fs EXCEPT ![name] = content]

NoRange == TimeRange(<< >>, << >>)

\* the record of the latest call: its arguments, the artifact it found (pre),
\* what it did and what it returned
Idle == [op |-> "init", r |-> NoRange, force |-> FALSE, hit |-> FALSE,
         pre |-> "absent", srcCalled |-> FALSE, src |-> None, wout |-> "none", ret |-> None,
         raised |-> FALSE, pattern |-> NoPattern, listing |-> {}]

\* FileTest.py:12-72  one call; the source outcome and the outcome of the
\* write are chosen where the call reaches them
query_data_with_cache(r, force) ==
    LET name    == file_path(r)
        old     == files[name]
        tryRead == UseCache(old.kind # "absent", force)
        hit     == tryRead /\ ReadSucceeds(old)
        call    == [Idle EXCEPT !.op = "query", !.r = r, !.force = force]
        seen    == [call EXCEPT !.pre = old.kind]
    IN  IF MkdirRaises(dirState)
        THEN /\ last' = [call EXCEPT !.raised = TRUE, !.ret = Raised]
             /\ UNCHANGED <<dirState, files>>
        ELSE /\ dirState' = "dir"
             /\ IF hit
                THEN /\ last' = [seen EXCEPT !.hit = TRUE, !.ret = read_excel(old)]
                     /\ UNCHANGED files
                ELSE \E src \in SourceOutcomes :
                       IF HasData(src)
                       THEN \E wout \in WriteOutcomes :
                              /\ files' = FilesAfterWrite(files, name,
                                            ArtifactAfterWrite(old, src, r, wout))
                              /\ last' = [seen EXCEPT !.srcCalled = TRUE, !.src = src,
                                                      !.wout = wout, !.ret = src]
                       ELSE /\ last' = [seen EXCEPT !.srcCalled = TRUE, !.src = src,
                                                    !.ret = None]
                            /\ UNCHANGED files

Query ==
    /\ \E r \in Ranges, force \in BOOLEAN : query_data_with_cache(r, force)
    /\ UNCHANGED <<san, cfile, proc, hist>>

(***************************************************************************)
(* Cache administration.                                                   *)
(***************************************************************************)
\* FileTest.py:127 and 156  cache_path.exists()
PathExists(d) == d \in {"dir", "file"}

\* the globs the two functions run over the cache directory
Globs == {XlsxGlob} \cup {PatternGlob(p.text) : p \in Patterns}

\* for each of them, the names it matches
NamesMatching == [pat \in Globs |-> {n \in Names : GlobMatch(pat, n)}]

\* the names a glob over the cache directory yields
GlobDir(d, fs, pat) ==
    IF d = "dir" THEN {n \in NamesMatching[pat] : fs[n].kind # "absent"}
    ELSE {}

\* FileTest.py:145-159
ListCacheFiles(d, fs) == IF ~PathExists(d) THEN {} ELSE GlobDir(d, fs, XlsxGlob)

list_cache_files ==
    /\ last' = [Idle EXCEPT !.op = "list", !.listing = ListCacheFiles(dirState, files)]
    /\ UNCHANGED <<dirState, files, san, cfile, proc, hist>>

\* FileTest.py:131-135  the truth value of pattern picks the glob
FilesToDelete(d, fs, pattern) ==
    IF pattern.given /\ pattern.text # << >>
    THEN GlobDir(d, fs, PatternGlob(pattern.text))
    ELSE GlobDir(d, fs, XlsxGlob)

\* FileTest.py:118-142  unlink each file; an unlink that fails is only logged
clear_cache(pattern) ==
    /\ last' = [Idle EXCEPT !.op = "clear", !.pattern = pattern]
    /\ IF ~PathExists(dirState)
       THEN UNCHANGED files
       ELSE LET files_to_delete == FilesToDelete(dirState, files, pattern)
            IN  \E failing \in SUBSET files_to_delete :
                   files' = [n \in Names |->
                               IF n \in files_to_delete \ failing
                               THEN Absent ELSE files[n]]
    /\ UNCHANGED <<dirState, san, cfile, proc, hist>>

Clear == \E pattern \in Patterns : clear_cache(pattern)

(***************************************************************************)
(* The environment: some other program leaves a file in the directory.     *)
(***************************************************************************)
ExternalPut ==
    /\ dirState = "dir"
    /\ \E n \in Names : files' = [files EXCEPT ![n] = Corrupt]
    /\ last' = [Idle EXCEPT !.op = "ext"]
    /\ UNCHANGED <<dirState, san, cfile, proc, hist>>

NoSan == [pc |-> "off", start |-> << >>, end |-> << >>, filename |-> << >>]

Init ==
    /\ dirState \in {"noparent", "absent", "file", "dir"}
    /\ files = [n \in Names |-> Absent]
    /\ last = Idle
    /\ san = NoSan
    /\ cfile = << >>
    /\ proc = << >>
    /\ hist = << >>

Next == Query \/ list_cache_files \/ Clear \/ ExternalPut

Spec == Init /\ [][Next]_vars

(***************************************************************************)
(* The filename builder on its own, for every pair of short strings.       *)
(***************************************************************************)
InputStrings == StringsUpTo(Alphabet, MaxLen)

InitSan ==
    /\ dirState = "dir"
    /\ files = [n \in Names |-> Absent]
    /\ last = Idle
    /\ san \in [pc : {"in"}, start : InputStrings, end : InputStrings,
                filename : {<< >>}]
    /\ cfile = << >>
    /\ proc = << >>
    /\ hist = << >>

\* FileTest.py:35-39
BuildFilename ==
    /\ san.pc = "in"
    /\ san' = [san EXCEPT !.pc = "out", !.filename = Filename(san.start, san.end)]
    /\ UNCHANGED <<dirState, files, last, cfile, proc, hist>>

NextSan == BuildFilename

SanSpec == InitSan /\ [][NextSan]_vars

(***************************************************************************)
(* Two callers running query_data_with_cache for the same cache key at the *)
(* same time.  Nothing in the function takes a lock, so the steps of the   *)
(* two calls interleave freely.  A workbook is stored by opening the file  *)
(* for writing, which truncates it, and then writing it piece by piece.    *)
(***************************************************************************)
Procs == {1, 2}

Chunk(w, i) == [w |-> w, i |-> i]

\* the zero bytes that fill a file between its old end and a later offset
Hole == Chunk(0, 0)

\* the stored form of writer w's table, which takes n writes
Workbook(w, n) == [i \in 1..n |-> Chunk(w, i)]

\* a workbook stored before either caller started
OldWorkbook == Workbook(0, 1)

\* FileTest.py:60  the file right after to_excel has opened it for writing
OpenForWriteKeep(data) == data

OpenForWrite(data) == << >>

\* FileTest.py:60  one write of to_excel at the writer's own file offset
WriteAt(data, pos, c) ==
    IF pos <= Len(data) THEN [data EXCEPT ![pos] = c]
    ELSE data \o [i \in 1..(pos - Len(data) - 1) |-> Hole] \o <<c>>

\* FileTest.py:45  read_excel succeeds only on a whole workbook
IsWorkbook(data) ==
    \/ data = OldWorkbook
    \/ \E p \in Procs : proc[p].size > 0 /\ data = Workbook(p, proc[p].size)

InitConc ==
    /\ dirState = "dir"
    /\ files = [n \in Names |-> Absent]
    /\ last = Idle
    /\ san = NoSan
    /\ cfile \in {[exists |-> FALSE, data |-> << >>],
                  [exists |-> TRUE, data |-> OldWorkbook]}
    /\ proc \in [Procs -> [pc : {"start"}, force : BOOLEAN, size : {0},
                           pos : {0}, ret : {"none"}, sawPartial : {FALSE}]]
    /\ hist = [finished |-> << >>, overlap |-> FALSE]

UnchangedSeq == UNCHANGED <<dirState, files, last, san>>

\* FileTest.py:42  if file_path.exists() and not force_refresh
CheckCache(p) ==
    /\ proc[p].pc = "start"
    /\ proc' = [proc EXCEPT ![p].pc =
                  IF UseCache(cfile.exists, proc[p].force) THEN "read" ELSE "source"]
    /\ UNCHANGED <<cfile, hist>>
    /\ UnchangedSeq

\* FileTest.py:43-50  read the artifact; a failed read falls through
ReadCache(p) ==
    /\ proc[p].pc = "read"
    /\ IF IsWorkbook(cfile.data)
       THEN proc' = [proc EXCEPT ![p].pc = "done", ![p].ret = "cached"]
       ELSE proc' = [proc EXCEPT ![p].pc = "source", ![p].sawPartial = TRUE]
    /\ UNCHANGED <<cfile, hist>>
    /\ UnchangedSeq

\* FileTest.py:55-57,66-72  the source query: a table of some size, or nothing
SourceQuery(p) ==
    /\ proc[p].pc = "source"
    /\ \/ \E n \in 1..NChunks :
             proc' = [proc EXCEPT ![p].pc = "open", ![p].size = n]
       \/ proc' = [proc EXCEPT ![p].pc = "done", ![p].ret = "none"]
    /\ UNCHANGED <<cfile, hist>>
    /\ UnchangedSeq

\* FileTest.py:60  to_excel opens the file
OpenArtifact(p) ==
    /\ proc[p].pc = "open"
    /\ cfile' = [exists |-> TRUE, data |-> OpenForWrite(cfile.data)]
    /\ proc' = [proc EXCEPT ![p].pc = "write", ![p].pos = 1]
    /\ hist' = [hist EXCEPT !.overlap =
                  @ \/ \E q \in Procs \ {p} : proc[q].pc = "write"]
    /\ UnchangedSeq

\* FileTest.py:60-65  to_excel writes the next piece; after the last one the
\* call returns the table
WriteChunk(p) ==
    /\ proc[p].pc = "write"
    /\ cfile' = [cfile EXCEPT !.data = WriteAt(@, proc[p].pos, Chunk(p, proc[p].pos))]
    /\ IF proc[p].pos = proc[p].size
       THEN /\ proc' = [proc EXCEPT ![p].pc = "done", ![p].ret = "table"]
            /\ hist' = [hist EXCEPT !.finished = Append(@, p)]
       ELSE /\ proc' = [proc EXCEPT ![p].pos = @ + 1]
            /\ UNCHANGED hist
    /\ UnchangedSeq

NextConc ==
    \E p \in Procs : \/ CheckCache(p)
                     \/ ReadCache(p)
                     \/ SourceQuery(p)
                     \/ OpenArtifact(p)
                     \/ WriteChunk(p)

ConcSpec == InitConc /\ [][NextConc]_vars

(***************************************************************************)
(* Vocabulary of the properties.                                           *)
(***************************************************************************)
\* the source query failed or brought nothing
SourceFailed(src) == src.kind \in {"raised", "none"} \/ Len(src.cells) = 0

\* a table that a spreadsheet file gives back as it was stored
SurvivesRoundTrip(df) == \A i \in 1..Len(df.cells) : df.cells[i] # ""

\* text occurs in name as a substring
Contains(name, text) ==
    \E i \in 1..(Len(name) + 1) :
        /\ i + Len(text) - 1 <= Len(name)
        /\ SubSeq(name, i, i + Len(text) - 1) = text

EndsWithXlsx(name) ==
    /\ Len(name) >= 5
    /\ SubSeq(name, Len(name) - 4, Len(name)) = XlsxSuffix

\* the characters the cache key may keep of its input
AllowList == {"a", "1", " ", "-", "_", "."}

\* t is s without the characters outside the allow-list, in the same order
RECURSIVE KeepsAllowed(_, _)
KeepsAllowed(s, t) ==
    IF s = << >> THEN t = << >>
    ELSE IF Head(s) \in AllowList
         THEN t # << >> /\ Head(t) = Head(s) /\ KeepsAllowed(Tail(s), Tail(t))
         ELSE KeepsAllowed(Tail(s), t)

\* this step is a non-forced query for the range of the non-forced query
\* that came right before it
SameQueryAgain ==
    /\ last.op = "query" /\ ~last.force
    /\ last'.op = "query" /\ ~last'.force
    /\ last'.r = last.r

C2_ForceRefreshAsStated ==
    (last.op = "query" /\ last.force /\ ~last.raised) =>
        /\ last.srcCalled
        /\ files[file_path(last.r)].kind = "xlsx"
        /\ files[file_path(last.r)].cells = last.src.cells

\* C2 amended: a forced query that returns never reads the artifact and calls
\* the source query, also when a readable artifact exists.  When the source
\* returned a non-empty table and the write succeeded the artifact holds that
\* table; when the source failed or returned nothing the artifact and every
\* other file are as before and the call returns None.
C2_ForceRefreshBypassesCache ==
    [][(last'.op = "query" /\ last'.force /\ ~last'.raised) =>
         /\ last'.srcCalled
         /\ ~last'.hit
         /\ (~SourceFailed(last'.src) /\ last'.wout = "ok") =>
               /\ files'[file_path(last'.r)].kind = "xlsx"
               /\ files'[file_path(last'.r)].cells = last'.src.cells
               /\ last'.ret = last'.src
         /\ SourceFailed(last'.src) => (files' = files /\ last'.ret = None)]_vars

\* a forced query that found a readable artifact and replaced it
C2_Witness ==
    /\ last.op = "query" /\ last.force /\ last.pre = "xlsx"
    /\ last.srcCalled /\ last.wout = "ok"
    /\ files[file_path(last.r)].cells = last.src.cells

(***************************************************************************)
(* C3.  Empty or failed source.                                            *)
(***************************************************************************)
\* C3: a query whose source query raises, returns None or returns a table
\* without rows returns None and leaves every file as it was.
C3_FailedSourceWritesNothing ==
    [][(last'.op = "query" /\ last'.srcCalled /\ SourceFailed(last'.src)) =>
         /\ last'.ret = None
         /\ last'.wout = "none"
         /\ files' = files]_vars

\* a forced query over an existing artifact whose source returned no rows
C3_Witness ==
    /\ last.op = "query" /\ last.srcCalled
    /\ last.src.kind = "table" /\ last.src.cells = << >>
    /\ last.ret = None
    /\ last.pre = "xlsx" /\ files[file_path(last.r)].kind = "xlsx"

(***************************************************************************)
(* C4.  Corrupt artifact.                                                  *)
(***************************************************************************)
\* C4: a non-forced query that finds an unreadable artifact does not raise
\* and does not delete the file; it calls the source query and returns the
\* source table if that has rows and None otherwise; a non-empty table whose
\* write succeeds replaces the corrupt artifact, and the next non-forced
\* query for the range is then a cache hit.
C4_CorruptArtifactFallsBack ==
    [][/\ (/\ last'.op = "query" /\ ~last'.force
           /\ files[file_path(last'.r)].kind = "corrupt") =>
            /\ ~last'.raised
            /\ ~last'.hit
            /\ last'.srcCalled
            /\ last'.ret = IF SourceFailed(last'.src) THEN None ELSE last'.src
            /\ files'[file_path(last'.r)].kind # "absent"
            /\ SourceFailed(last'.src) => files' = files
            /\ (~SourceFailed(last'.src) /\ last'.wout = "ok") =>
                  /\ files'[file_path(last'.r)].kind = "xlsx"
                  /\ files'[file_path(last'.r)].cells = last'.src.cells
       /\ (/\ SameQueryAgain
           /\ last.pre = "corrupt" /\ last.wout = "ok") =>
            /\ last'.hit
            /\ ~last'.srcCalled]_vars

\* a non-forced query that found a corrupt artifact and replaced it
C4_Witness ==
    /\ last.op = "query" /\ ~last.force /\ last.pre = "corrupt"
    /\ last.srcCalled /\ last.wout = "ok" /\ last.ret = last.src
    /\ files[file_path(last.r)].kind = "xlsx"

(***************************************************************************)
(* C5.  Selective clear.                                                   *)
(***************************************************************************)
\* C5: clear with a pattern removes only *.xlsx files whose name contains the
\* pattern and leaves every other file as it was; when no removal fails, a
\* following list yields the *.xlsx names that do not contain the pattern.
C5_SelectiveClearAsStated ==
    [][(last'.op = "clear" /\ last'.pattern.given) =>
         /\ \A n \in Names :
               files'[n] # files[n] =>
                  EndsWithXlsx(n) /\ Contains(n, last'.pattern.text)
         /\ (\A n \in Names :
               (EndsWithXlsx(n) /\ Contains(n, last'.pattern.text)) =>
                  files'[n].kind = "absent") =>
            ListCacheFiles(dirState', files') =
               {n \in ListCacheFiles(dirState, files) :
                   ~Contains(n, last'.pattern.text)}]_vars

(***************************************************************************)
(* C6.  No failure escapes.                                                *)
(***************************************************************************)
\* C6: whatever the state of the file system and the outcome of the source
\* query, no call of query, list or clear ends by raising.
C6_NoFailureEscapes == ~last.raised /\ last.ret.kind # "raised"

(***************************************************************************)
(* C7.  Frame of query.                                                    *)
(***************************************************************************)
\* C7: a query changes no file other than the artifact of its own range and
\* removes no file, whatever the cache read, the source query and the write
\* come to.
C7_QueryTouchesOnlyItsArtifact ==
    [][last'.op = "query" =>
         \A n \in Names :
            /\ n # file_path(last'.r) => files'[n] = files[n]
            /\ files[n].kind # "absent" => files'[n].kind # "absent"]_vars

\* a query stored its artifact next to two other files
C7_Witness ==
    /\ last.op = "query" /\ last.wout = "ok"
    /\ files[file_path(last.r)].by = {last.r}
    /\ \A n \in Names : files[n].kind # "absent"

(***************************************************************************)
(* C8.  Key sanitisation.                                                  *)
(***************************************************************************)
\* C8: the filename is the start string without the characters outside the
\* allow-list, an underscore, the end string without them, and ".xlsx"; so it
\* never holds "/", ":" or "?".
C8_FilenameIsSanitized ==
    san.pc = "out" =>
        /\ \A i \in 1..Len(san.filename) : san.filename[i] \notin {"/", ":", "?"}
        /\ EndsWithXlsx(san.filename)
        /\ \E k \in 0..(Len(san.filename) - 6) :
              /\ KeepsAllowed(san.start, SubSeq(san.filename, 1, k))
              /\ san.filename[k + 1] = "_"
              /\ KeepsAllowed(san.end, SubSeq(san.filename, k + 2, Len(san.filename) - 5))

\* both strings held a character that is dropped
C8_Witness ==
    /\ san.pc = "out"
    /\ san.start = <<"a", "/">> /\ san.end = <<"?", "1">>
    /\ san.filename = <<"a", "_", "1">> \o XlsxSuffix

(***************************************************************************)
(* C9.  Concurrent callers.                                                *)
(***************************************************************************)
BothWrote == Len(hist.finished) = 2 /\ \A p \in Procs : proc[p].pc = "done"

LastWriter == hist.finished[2]

\* C9 as stated: once two concurrent calls that both wrote have returned, the
\* artifact is the whole workbook of the call whose write finished last.
C9_LastWriterWinsAsStated ==
    BothWrote => cfile.data = Workbook(LastWriter, proc[LastWriter].size)

\* C9 amended: once two concurrent calls that both wrote have returned, the
\* artifact is the whole workbook of the call whose write finished last
\* provided the second write was opened after the first had finished; writes
\* that overlap may leave a mixture of the two workbooks, and a reader that
\* overlaps a write may find a partial file.
C9_LastWriterWinsWithoutOverlap ==
    (BothWrote /\ ~hist.overlap) =>
        cfile.data = Workbook(LastWriter, proc[LastWriter].size)

\* both calls wrote, one after the other, and the second had first read the
\* artifact while the first was writing it
C9_Witness ==
    /\ BothWrote /\ ~hist.overlap
    /\ proc[LastWriter].sawPartial
    /\ cfile.data = Workbook(LastWriter, proc[LastWriter].size)

(***************************************************************************)
(* C10.  Cache hits are faithful to the range.                             *)
(***************************************************************************)
\* C10: a query served from the cache returns a table that the source query
\* produced for the very range asked for.
C10_CacheHitIsRangeFaithful ==
    (last.op = "query" /\ last.hit) => files[file_path(last.r)].by = {last.r}

====
